---- MODULE Spec2Model ----
(***************************************************************************)
(* Model of app.py (OS-tips): the durable-write primitive                  *)
(* atomic_write_text, the two stores (results.csv, picks.json), the        *)
(* scoring (score_pick, build_scoreboard) and the script with its four     *)
(* tabs.                                                                   *)
(*                                                                         *)
(* The state machines of the module:                                       *)
(*   SpecSingle / SpecConc : atomic_write_text at system-call granularity  *)
(*                           with one or two writers on the same target;   *)
(*   SpecScore             : score_pick applied inside the inner loop of   *)
(*                           build_scoreboard;                             *)
(*   SpecBoard             : build_scoreboard, player by player, and the   *)
(*                           sort of the rows;                             *)
(*   SpecLoad              : load_results and load_picks at the start of a *)
(*                           run, against any stored content;              *)
(*   Spec                  : one session running the script top to bottom, *)
(*                           run after run, widgets keeping their state;   *)
(*   SpecRace              : two sessions whose load_results and admin     *)
(*                           save interleave on results.csv.               *)
(***************************************************************************)
EXTENDS Integers, Sequences, FiniteSets, TLC

(***************************************************************************)
(* Bounds.                                                                 *)
(***************************************************************************)
MaxChunks == 2   \* a text is flushed to the file in at most this many write() calls
MaxWrites == 2   \* calls of atomic_write_text per writer
MaxRows == 2     \* data rows of a results.csv found on disk
MaxRuns == 3     \* script runs of the session
MaxRaceRuns == 2 \* script runs of each of two sessions sharing results.csv

VARIABLES
  \* ---- file system as seen by atomic_write_text ----
  target,    \* the file at `path`:        [exists, data]
  tmp,       \* the file at `path + .tmp`: [exists, data]
  wpc,       \* writer -> position inside atomic_write_text
  wtext,     \* writer -> the text it was asked to write
  wpos,      \* writer -> offset of its open file descriptor (in chunks)
  wfd,       \* writer -> the file its descriptor refers to
  wcount,    \* writer -> calls of atomic_write_text started so far
  wprior,    \* writer -> content of the target when its call started
  \* ---- build_scoreboard, the inner loop for one player ----
  sb_user_picks,   \* user_picks: athlete id -> pick (Missing where there is no key)
  sb_results_map,  \* results_map: athlete id -> medal (Missing where there is no key)
  sb_i,            \* athletes iterated so far
  pick,            \* locals of the last iteration
  actual,
  pts,
  total,
  exact,
  right_person,
  \* ---- one call of build_scoreboard (app.py:101-117) ----
  b_athletes,      \* athletes["athlete_id"].tolist()
  b_results,       \* the rows of the results frame
  b_picks_all,     \* the picks document
  b_pc,            \* where the call stands
  b_results_map,   \* results_map (line 102)
  b_p,             \* roster players the outer loop is done with
  b_rows,          \* rows (lines 103, 116)
  b_out,           \* the frame returned (line 117)
  \* ---- one session running the script (app.py:120-267) ----
  results_csv,   \* the file RESULTS_CSV
  picks_json,    \* the file PICKS_JSON
  pc,            \* position of the script run; "stopped" after st.stop(),
                 \* "raised_..." after an exception that ended the run
  runs,          \* script runs started so far
  click,         \* the button whose click triggered this run ("none": another widget)
  results,       \* module-level `results`:   [set, rows]
  picks_all,     \* module-level `picks_all`: [set, val]
  board,         \* TRUE once build_scoreboard has run in this run
  disk0,         \* RESULTS_CSV as it was when the run started
  saved_results, \* argument of the latest save_results: [set, rows]
  saved_picks,   \* argument of the latest save_picks:   [set, val]
  pwd,           \* widget state: the text in the password field (line 195)
  up_picks,      \* widget state: the file in the picks uploader (line 245)
  up_results,    \* widget state: the file in the results uploader (line 254)
  authed,        \* TRUE once the password has matched in this session
  pick_op,       \* what the pick buttons did in this run
  admin_saved,   \* the frame "Spara resultat" saved in this run: [set, rows]
  restore,       \* the backup/restore tab of this run: the stores as it found
                 \* them, the download data, the messages of the two imports
  earlier,       \* which stores an earlier run of the session has imported
  \* ---- two sessions loading and saving results.csv (app.py:53-71, 221-224) ----
  r_pc,          \* session -> position of its script run
  r_runs,        \* session -> script runs started so far
  r_click,       \* session -> the button whose click triggered the run
  r_pwd,         \* session -> the text in its password field
  r_exists,      \* session -> what RESULTS_CSV.exists() returned to it (line 54)
  r_results,     \* session -> the frame load_results returned to it: [set, rows]
  r_saved        \* the frame of the latest "Spara resultat": [set, rows]

varsS == <<results_csv, picks_json, pc, runs, click, results, picks_all, board,
           disk0, saved_results, saved_picks, pwd, up_picks, up_results, authed,
           pick_op, admin_saved, restore, earlier>>

callB == <<b_athletes, b_results, b_picks_all, b_pc, b_results_map, b_p, b_rows, b_out>>

varsB == <<sb_user_picks, sb_results_map, sb_i, pick, actual, pts, total, exact, right_person,
           callB>>

varsW == <<target, tmp, wpc, wtext, wpos, wfd, wcount, wprior>>

varsR == <<r_pc, r_runs, r_click, r_pwd, r_exists, r_results, r_saved>>

vars == <<varsW, varsB, varsS, varsR>>

(***************************************************************************)
(* Texts.  A text is a sequence of chunks; a chunk records the writer, the *)
(* number of the call, its index and the length of the text it belongs to, *)
(* so that a truncated text or a mixture of two texts is recognisable.     *)
(***************************************************************************)
Doc(w, k, n) == [i \in 1..n |-> <<w, k, i, n>>]

Hole == <<0, 0, 0, 0>>   \* bytes never written (a gap left by a write past the end)

Absent == [exists |-> FALSE, data |-> <<>>]

File(d) == [exists |-> TRUE, data |-> d]

WriterIds == {1, 2}

(***************************************************************************)
(* Program constants and the registry.                                     *)
(***************************************************************************)
\* app.py:8
MEDALS == <<"None", "Bronze", "Silver", "Gold">>

Medal == {MEDALS[i] : i \in DOMAIN MEDALS}

\* the athlete_id column of the frame load_athletes returns (app.py:35-50):
\* the registry, unique ids, in file order
ATHLETES == <<"a1", "a2">>

AthleteIds == {ATHLETES[i] : i \in DOMAIN ATHLETES}

\* an id that can occur in stored data but is not in the registry
StrayId == "zz"

\* a medal string outside MEDALS
BadMedal == "Platinum"

\* marks a key a dict does not have
Missing == "<missing>"

\* dict.get(key, default) on a dict given as a total function with Missing
Get(d, key, default) ==
  IF key \in DOMAIN d /\ d[key] # Missing THEN d[key] ELSE default

\* every text some call of atomic_write_text is given, and the prior versions
Texts == {Doc(w, k, n) : w \in WriterIds, k \in 1..MaxWrites, n \in 1..MaxChunks}

PriorTexts == {Doc(0, 0, n) : n \in 1..MaxChunks}

\* os.write at offset pos of one chunk c into content d
PWrite(d, pos, c) ==
  LET len == IF pos + 1 > Len(d) THEN pos + 1 ELSE Len(d)
  IN  [i \in 1..len |-> IF i = pos + 1 THEN c
                        ELSE IF i <= Len(d) THEN d[i] ELSE Hole]

(***************************************************************************)
(* atomic_write_text(path, text), app.py:29-32.                            *)
(*   tmp = path.with_suffix(path.suffix + ".tmp")   -- the same name for   *)
(*                                                     every caller        *)
(*   tmp.write_text(text)   -- open(tmp, "w") truncates or creates, then   *)
(*                             the text is written and the file closed     *)
(*   tmp.replace(path)      -- rename(2)                                   *)
(***************************************************************************)

\* a call starts: the caller hands over a complete text
Begin(w) ==
  /\ wpc[w] \in {"idle", "done", "failed", "crashed"}
  /\ wcount[w] < MaxWrites
  /\ \E n \in 1..MaxChunks :
       wtext' = [wtext EXCEPT ![w] = Doc(w, wcount[w] + 1, n)]
  /\ wcount' = [wcount EXCEPT ![w] = @ + 1]
  /\ wprior' = [wprior EXCEPT ![w] = target]
  /\ wpc' = [wpc EXCEPT ![w] = "open"]
  /\ UNCHANGED <<target, tmp, wpos, wfd>>
  /\ UNCHANGED <<varsB, varsS, varsR>>

\* a plausible slip: the temp file opened without O_TRUNC ("r+" / "a" style)
TmpOpenKeep(w) ==
  /\ wpc[w] = "open"
  /\ tmp' = IF tmp.exists THEN tmp ELSE File(<<>>)
  /\ wfd' = [wfd EXCEPT ![w] = "tmp"]
  /\ wpos' = [wpos EXCEPT ![w] = 0]
  /\ wpc' = [wpc EXCEPT ![w] = "write"]
  /\ UNCHANGED <<target, wtext, wcount, wprior>>
  /\ UNCHANGED <<varsB, varsS, varsR>>

\* open(tmp, O_WRONLY | O_CREAT | O_TRUNC): line 31, first half of write_text
TmpOpenTruncate(w) ==
  /\ wpc[w] = "open"
  /\ tmp' = File(<<>>)
  /\ wfd' = [wfd EXCEPT ![w] = "tmp"]
  /\ wpos' = [wpos EXCEPT ![w] = 0]
  /\ wpc' = [wpc EXCEPT ![w] = "write"]
  /\ UNCHANGED <<target, wtext, wcount, wprior>>
  /\ UNCHANGED <<varsB, varsS, varsR>>

\* one write() of the next chunk through the descriptor: line 31
TmpWriteChunk(w) ==
  /\ wpc[w] = "write"
  /\ wpos[w] < Len(wtext[w])
  /\ LET c == wtext[w][wpos[w] + 1]
     IN  /\ tmp' = IF wfd[w] = "tmp" THEN File(PWrite(tmp.data, wpos[w], c)) ELSE tmp
         /\ target' = IF wfd[w] = "target"
                        THEN File(PWrite(target.data, wpos[w], c)) ELSE target
  /\ wpos' = [wpos EXCEPT ![w] = @ + 1]
  /\ UNCHANGED <<wpc, wtext, wfd, wcount, wprior>>
  /\ UNCHANGED <<varsB, varsS, varsR>>

\* close(): line 31, end of write_text
TmpClose(w) ==
  /\ wpc[w] = "write"
  /\ wpos[w] = Len(wtext[w])
  /\ wfd' = [wfd EXCEPT ![w] = "none"]
  /\ wpc' = [wpc EXCEPT ![w] = "replace"]
  /\ UNCHANGED <<target, tmp, wtext, wpos, wcount, wprior>>
  /\ UNCHANGED <<varsB, varsS, varsR>>

\* the descriptors that follow the file when tmp is renamed over the target
FdAfterRename(fd) ==
  [v \in DOMAIN fd |-> IF fd[v] = "tmp" THEN "target"
                       ELSE IF fd[v] = "target" THEN "orphan" ELSE fd[v]]

\* tmp.replace(path): line 32; FileNotFoundError when tmp is gone
TmpReplace(w) ==
  /\ wpc[w] = "replace"
  /\ IF tmp.exists
       THEN /\ target' = tmp
            /\ tmp' = Absent
            /\ wfd' = FdAfterRename(wfd)
            /\ wpc' = [wpc EXCEPT ![w] = "done"]
       ELSE /\ wpc' = [wpc EXCEPT ![w] = "failed"]
            /\ UNCHANGED <<target, tmp, wfd>>
  /\ UNCHANGED <<wtext, wpos, wcount, wprior>>
  /\ UNCHANGED <<varsB, varsS, varsR>>

\* the writer dies anywhere before the rename; its descriptor is closed
Crash(w) ==
  /\ wpc[w] \in {"open", "write", "replace"}
  /\ wpc' = [wpc EXCEPT ![w] = "crashed"]
  /\ wfd' = [wfd EXCEPT ![w] = "none"]
  /\ UNCHANGED <<target, tmp, wtext, wpos, wcount, wprior>>
  /\ UNCHANGED <<varsB, varsS, varsR>>

(***************************************************************************)
(* results.csv: pandas to_csv / read_csv.                                  *)
(* A file is absent, unreadable for read_csv ("garbage": empty or not      *)
(* text), or a table with a header (the set cols) and rows of two cells    *)
(* <<athlete_id, medal>>.  Registry ids are taken to be non-numeric text,  *)
(* so read_csv followed by astype(str) gives an id cell back unchanged.    *)
(***************************************************************************)
NoFile == [kind |-> "absent", cols |-> {}, rows |-> <<>>]

GarbageCsv == [kind |-> "garbage", cols |-> {}, rows |-> <<>>]

CsvFile(cols, rows) == [kind |-> "csv", cols |-> cols, rows |-> rows]

REQUIRED == {"athlete_id", "medal"}   \* app.py:60

\* the float NaN that read_csv puts where a cell holds an NA marker
NaN == "<float nan>"

\* pandas' default NA markers (read_csv, na_values / keep_default_na)
NaValues == {"", "#N/A", "#N/A N/A", "#NA", "-1.#IND", "-1.#QNAN", "-NaN", "-nan",
             "1.#IND", "1.#QNAN", "<NA>", "N/A", "NA", "NULL", "NaN", "None",
             "n/a", "nan", "null"}

\* read_csv on one cell
ReadCell(c) == IF c \in NaValues THEN NaN ELSE c

\* Series.astype(str) on one value: NaN becomes the text "nan"
AsStr(v) == IF v = NaN THEN "nan" ELSE v

\* to_csv on one value: NaN is written as the empty cell
ToCsvCell(v) == IF v = NaN THEN "" ELSE v

\* DataFrame.to_csv(index=False) of a frame with columns athlete_id, medal
to_csv(rows) ==
  CsvFile(REQUIRED, [i \in DOMAIN rows |-> <<ToCsvCell(rows[i][1]), ToCsvCell(rows[i][2])>>])

\* pd.read_csv: the rows of a readable file, cell by cell
read_csv(f) == [i \in DOMAIN f.rows |-> <<ReadCell(f.rows[i][1]), ReadCell(f.rows[i][2])>>]

\* lines 65-66 (and 261-262): both columns through astype(str)
AsStrFrame(rows) == [i \in DOMAIN rows |-> <<AsStr(rows[i][1]), AsStr(rows[i][2])>>]

\* a plausible slip: one unknown medal resets the whole column
CoerceAllIfAny(rows) ==
  IF \E i \in DOMAIN rows : rows[i][2] \notin Medal
    THEN [i \in DOMAIN rows |-> <<rows[i][1], "None">>]
    ELSE rows

\* line 67 (and 263): df.loc[~df["medal"].isin(MEDALS), "medal"] = "None"
CoerceMedals(rows) ==
  [i \in DOMAIN rows |-> <<rows[i][1], IF rows[i][2] \in Medal THEN rows[i][2] ELSE "None">>]

\* the rows of df whose athlete_id is id, in df's order
RowsFor(id, rows) == SelectSeq(rows, LAMBDA r : r[1] = id)

\* line 69: athletes[["athlete_id"]].merge(df, on="athlete_id", how="left"):
\* registry order; every matching row of df; one NaN row where none matches
RECURSIVE MergeLeft(_, _)
MergeLeft(ids, rows) ==
  IF ids = <<>> THEN <<>>
  ELSE (IF RowsFor(Head(ids), rows) = <<>> THEN <<<<Head(ids), NaN>>>>
        ELSE RowsFor(Head(ids), rows)) \o MergeLeft(Tail(ids), rows)

\* line 70: merged["medal"].fillna("None")
FillNa(rows) ==
  [i \in DOMAIN rows |-> <<rows[i][1], IF rows[i][2] = NaN THEN "None" ELSE rows[i][2]>>]

\* a plausible slip: the seed marks every athlete with a medal
SeedGold == [i \in DOMAIN ATHLETES |-> <<ATHLETES[i], "Gold">>]

\* lines 55-56: one row per registry athlete, medal "None"
Seed == [i \in DOMAIN ATHLETES |-> <<ATHLETES[i], "None">>]

\* a plausible slip: a table without the required columns is merged anyway
load_results_lenient(f) ==
  LET f1 == IF f.kind = "absent" THEN to_csv(Seed) ELSE f
  IN  IF f1.kind = "garbage"
        THEN [file |-> f1, out |-> "raise", rows |-> <<>>]
      ELSE IF ~(REQUIRED \subseteq f1.cols)
        THEN [file |-> f1, out |-> "ok", rows |-> FillNa(MergeLeft(ATHLETES, <<>>))]
      ELSE [file |-> f1, out |-> "ok",
            rows |-> FillNa(MergeLeft(ATHLETES, CoerceMedals(AsStrFrame(read_csv(f1)))))]

\* load_results(athletes), lines 53-71: the file after the call, how the call
\* ends ("ok", "stop" for st.stop(), "raise" for an exception of read_csv)
\* and the frame returned
load_results(f) ==
  LET f1 == IF f.kind = "absent" THEN to_csv(Seed) ELSE f
  IN  IF f1.kind = "garbage"
        THEN [file |-> f1, out |-> "raise", rows |-> <<>>]
      ELSE IF ~(REQUIRED \subseteq f1.cols)
        THEN [file |-> f1, out |-> "stop", rows |-> <<>>]
      ELSE [file |-> f1, out |-> "ok",
            rows |-> FillNa(MergeLeft(ATHLETES, CoerceMedals(AsStrFrame(read_csv(f1)))))]

\* save_results(results_df), lines 74-75 (atomic_write_text taken as one step)
save_results(rows) == to_csv(rows)

(***************************************************************************)
(* picks.json: json.dumps / json.loads.                                    *)
(* A JSON value is [t, m]: t tells a dict from a list; m maps every key of *)
(* PlayerKeys to the player's value, itself [t, m] with t one of "dict",   *)
(* "str" (a value that is not a mapping) or "missing" (no such key) and m  *)
(* from athlete id to a medal string or Missing.                           *)
(***************************************************************************)
\* app.py:7 (the second name is written without its diaeresis)
PLAYERS == <<"Johan", "Goran", "Jesper", "Peter", "Magnus", "Tony">>

Players == {PLAYERS[i] : i \in DOMAIN PLAYERS}

\* a key that can occur in stored picks but is not in the roster
StrayPlayer == "Other"

PlayerKeys == Players \cup {StrayPlayer}

\* the ids of a registry of five athletes, in the order of athletes.csv
Registry5 == <<"a1", "a2", "a3", "a4", "a5">>

AthleteKeys == AthleteIds \cup {Registry5[i] : i \in DOMAIN Registry5} \cup {StrayId}

NoEntries == [a \in AthleteKeys |-> Missing]

NoKey == [t |-> "missing", m |-> NoEntries]

NotADict == [t |-> "str", m |-> NoEntries]

DictOf(m) == [t |-> "dict", m |-> m]

\* {}
EmptyDict == [t |-> "dict", m |-> [p \in PlayerKeys |-> NoKey]]

\* a JSON document that is a list, not an object
JsonList == [t |-> "list", m |-> [p \in PlayerKeys |-> NoKey]]

NoPicksFile == [kind |-> "absent", val |-> EmptyDict]

GarbageJson == [kind |-> "garbage", val |-> EmptyDict]

\* json.dumps(picks, ensure_ascii=False, indent=2): the document of the value
json_dumps(v) == [kind |-> "json", val |-> v]

\* a plausible slip: load_picks gives up on every file
load_picks_empty(f) == EmptyDict

\* load_picks(), lines 78-84
load_picks(f) ==
  IF f.kind = "absent" THEN EmptyDict
  ELSE IF f.kind = "garbage" THEN EmptyDict     \* json.loads raises: except branch
  ELSE f.val

\* save_picks(picks), lines 87-88 (atomic_write_text taken as one step)
save_picks(v) == json_dumps(v)

\* the uploader is empty (up_picks / up_results is None)
NoPicksUpload == [kind |-> "none", val |-> EmptyDict]

NoResultsUpload == [kind |-> "none", cols |-> {}, rows |-> <<>>]

\* no pick button has acted in this run
NoPickOp == [did |-> "none", player |-> "", athlete_id |-> "", medal |-> "",
             before |-> EmptyDict]

\* the backup/restore tab has not been reached in this run
NoRestore == [reached |-> FALSE,
              pre_picks |-> NoPicksFile, pre_results |-> NoFile,
              exp_picks |-> NoPicksUpload, exp_results |-> NoResultsUpload,
              msg_picks |-> "none", msg_results |-> "none"]

Unset == [set |-> FALSE, rows |-> <<>>]

Frame(rows) == [set |-> TRUE, rows |-> rows]

UnsetPicks == [set |-> FALSE, val |-> EmptyDict]

Loaded(v) == [set |-> TRUE, val |-> v]

\* nothing is being written
WritersOff ==
  /\ target = Absent
  /\ tmp = Absent
  /\ wpc = [w \in WriterIds |-> "off"]
  /\ wtext = [w \in WriterIds |-> <<>>]
  /\ wpos = [w \in WriterIds |-> 0]
  /\ wfd = [w \in WriterIds |-> "none"]
  /\ wcount = [w \in WriterIds |-> 0]
  /\ wprior = [w \in WriterIds |-> Absent]

\* no scoreboard is being built
CallOff ==
  /\ b_athletes = <<>>
  /\ b_results = <<>>
  /\ b_picks_all = EmptyDict
  /\ b_pc = "off"
  /\ b_results_map = NoEntries
  /\ b_p = 0
  /\ b_rows = <<>>
  /\ b_out = <<>>

BoardOff ==
  /\ sb_user_picks = [a \in AthleteIds |-> Missing]
  /\ sb_results_map = [a \in AthleteIds |-> Missing]
  /\ sb_i = 0
  /\ pick = "None"
  /\ actual = "None"
  /\ pts = 0
  /\ total = 0
  /\ exact = 0
  /\ right_person = 0
  /\ CallOff

Sessions == {1, 2}

\* no pair of sessions is running
RaceOff ==
  /\ r_pc = [s \in Sessions |-> "off"]
  /\ r_runs = [s \in Sessions |-> 0]
  /\ r_click = [s \in Sessions |-> "none"]
  /\ r_pwd = [s \in Sessions |-> ""]
  /\ r_exists = [s \in Sessions |-> FALSE]
  /\ r_results = [s \in Sessions |-> Unset]
  /\ r_saved = Unset

\* no session is running
SessionOff ==
  /\ results_csv = NoFile
  /\ picks_json = NoPicksFile
  /\ pc = "off"
  /\ runs = 0
  /\ click = "none"
  /\ results = Unset
  /\ picks_all = UnsetPicks
  /\ board = FALSE
  /\ disk0 = NoFile
  /\ saved_results = Unset
  /\ saved_picks = UnsetPicks
  /\ pwd = ""
  /\ up_picks = NoPicksUpload
  /\ up_results = NoResultsUpload
  /\ authed = FALSE
  /\ pick_op = NoPickOp
  /\ admin_saved = Unset
  /\ restore = NoRestore
  /\ earlier = [picks |-> FALSE, results |-> FALSE]

InitFiles ==
  /\ target \in {Absent} \cup {File(d) : d \in PriorTexts}
  /\ tmp = Absent
  /\ wtext = [w \in WriterIds |-> <<>>]
  /\ wpos = [w \in WriterIds |-> 0]
  /\ wfd = [w \in WriterIds |-> "none"]
  /\ wcount = [w \in WriterIds |-> 0]
  /\ wprior = [w \in WriterIds |-> target]

\* one writer: the second one never starts
InitSingle ==
  /\ InitFiles
  /\ BoardOff
  /\ SessionOff
  /\ RaceOff
  /\ wpc = [w \in WriterIds |-> IF w = 1 THEN "idle" ELSE "off"]

\* two sessions saving to the same target
InitConc ==
  /\ InitFiles
  /\ BoardOff
  /\ SessionOff
  /\ RaceOff
  /\ wpc = [w \in WriterIds |-> "idle"]

NextW ==
  \E w \in WriterIds :
    \/ Begin(w)
    \/ TmpOpenTruncate(w)
    \/ TmpWriteChunk(w)
    \/ TmpClose(w)
    \/ TmpReplace(w)
    \/ Crash(w)

SpecSingle == InitSingle /\ [][NextW]_vars

SpecConc == InitConc /\ [][NextW]_vars

(***************************************************************************)
(* score_pick, app.py:91-98, and the body of the inner loop of             *)
(* build_scoreboard, app.py:107-115.                                       *)
(***************************************************************************)
\* a plausible slip: the equality test placed before the "no outcome" test
score_pick_eq_first(p, a) ==
  IF p = a THEN 5
  ELSE IF a = "None" THEN 0
  ELSE IF p # "None" /\ a # "None" THEN 2
  ELSE 0

score_pick(p, a) ==
  IF a = "None" THEN 0
  ELSE IF p = a THEN 5
  ELSE IF p # "None" /\ a # "None" THEN 2
  ELSE 0

\* what a stored pick or outcome can be: a medal, a string outside the enum,
\* or no entry at all
PickValues == Medal \cup {BadMedal, Missing}

InitScore ==
  /\ WritersOff
  /\ SessionOff
  /\ RaceOff
  /\ sb_user_picks \in [AthleteIds -> PickValues]
  /\ sb_results_map \in [AthleteIds -> Medal \cup {Missing}]
  /\ sb_i = 0
  /\ pick = "None"
  /\ actual = "None"
  /\ pts = 0
  /\ total = 0
  /\ exact = 0
  /\ right_person = 0
  /\ CallOff

\* one iteration of `for aid in athletes["athlete_id"].tolist()`: lines 107-115
ScoreStep ==
  /\ sb_i < Len(ATHLETES)
  /\ LET aid == ATHLETES[sb_i + 1]
         pk  == Get(sb_user_picks, aid, "None")
         ac  == Get(sb_results_map, aid, "None")
         p   == score_pick(pk, ac)
     IN  /\ pick' = pk
         /\ actual' = ac
         /\ pts' = p
         /\ total' = total + p
         /\ exact' = IF ac # "None" /\ pk = ac THEN exact + 1 ELSE exact
         /\ right_person' = IF ~(ac # "None" /\ pk = ac) /\ ac # "None" /\ pk # "None"
                               THEN right_person + 1 ELSE right_person
  /\ sb_i' = sb_i + 1
  /\ UNCHANGED <<sb_user_picks, sb_results_map, callB>>
  /\ UNCHANGED <<varsW, varsS, varsR>>

NextScore == ScoreStep

SpecScore == InitScore /\ [][NextScore]_vars

(***************************************************************************)
(* build_scoreboard(athletes, results, picks_all), app.py:101-117.         *)
(***************************************************************************)
\* line 102: dict(zip(results["athlete_id"], results["medal"])); of two rows
\* with the same id the later one stays
results_map(rows) ==
  [a \in AthleteKeys |->
     LET at == {i \in DOMAIN rows : rows[i][1] = a}
     IN  IF at = {} THEN Missing
         ELSE rows[CHOOSE i \in at : \A j \in at : j <= i][2]]

\* line 105: picks_all.get(p, {})
user_picks_of(v, p) == IF v.m[p].t = "missing" THEN NoEntries ELSE v.m[p].m

\* a plausible slip: equal strings count as exact, None against None included
IsExactEq(pk, ac) == pk = ac

\* line 112: if actual != "None" and pick == actual
IsExact(pk, ac) == ac # "None" /\ pk = ac

\* a plausible slip: `if` where the code has `elif`
IsPartialIf(pk, ac) == ac # "None" /\ pk # "None"

\* line 114: elif actual != "None" and pick != "None"
IsPartial(pk, ac) == ~IsExact(pk, ac) /\ ac # "None" /\ pk # "None"

NoTally == [total |-> 0, exact |-> 0, right_person |-> 0]

\* lines 106-115: the inner loop over the registry for one player
RECURSIVE Tally(_, _, _)
Tally(ids, user_picks, rm) ==
  IF ids = <<>> THEN NoTally
  ELSE LET aid == ids[Len(ids)]
           pk  == Get(user_picks, aid, "None")
           ac  == Get(rm, aid, "None")
           t   == Tally(SubSeq(ids, 1, Len(ids) - 1), user_picks, rm)
       IN  [total |-> t.total + score_pick(pk, ac),
            exact |-> t.exact + (IF IsExact(pk, ac) THEN 1 ELSE 0),
            right_person |-> t.right_person + (IF IsPartial(pk, ac) THEN 1 ELSE 0)]

\* line 116: the row of one player (Poang, Exakta, RattMedaljor for the
\* columns "Poäng", "Exakta (5p)", "Rätt medaljör (2p)")
BoardRow(p, t) ==
  [Tippare |-> p, Poang |-> t.total, Exakta |-> t.exact, RattMedaljor |-> t.right_person]

\* a plausible slip: the frame is sorted by the points alone
PrecedesByPoints(r, x) == r.Poang > x.Poang

\* line 117: r sorts strictly before x under ["Poäng", "Exakta (5p)"], descending
Precedes(r, x) ==
  r.Poang > x.Poang \/ (r.Poang = x.Poang /\ r.Exakta > x.Exakta)

RECURSIVE InsertRow(_, _)
InsertRow(sorted, r) ==
  IF sorted = <<>> THEN <<r>>
  ELSE IF Precedes(r, Head(sorted)) THEN <<r>> \o sorted
  ELSE <<Head(sorted)>> \o InsertRow(Tail(sorted), r)

\* line 117: sort_values(..., ascending=False).reset_index(drop=True); the sort
\* on two keys is stable, rows equal on both keep the order they had
RECURSIVE sort_values(_)
sort_values(rows) ==
  IF rows = <<>> THEN <<>>
  ELSE InsertRow(sort_values(SubSeq(rows, 1, Len(rows) - 1)), rows[Len(rows)])

\* lines 105, 108: .get on the value a roster player has in the document; a
\* value that is no dict has no .get, AttributeError
GetRaises(v, p) == v.m[p].t = "str"

\* build_scoreboard as a whole
build_scoreboard(athletes, rows, v) ==
  IF \E p \in Players : GetRaises(v, p)
    THEN [state |-> "raised", rows |-> <<>>]
  ELSE [state |-> "returned",
        rows |-> sort_values([i \in DOMAIN PLAYERS |->
                    BoardRow(PLAYERS[i],
                             Tally(athletes, user_picks_of(v, PLAYERS[i]),
                                   results_map(rows)))])]

\* registries the function is called with
Registries == {<<"a1">>, <<"a1", "a2">>, Registry5}

\* results frames the function is called with: no row, one row per athlete,
\* a row for an id outside the registry, two rows for one id, a cell outside
\* the enum
BoardResults ==
  {<<>>,
   <<<<"a1", "Gold">>>>,
   [i \in DOMAIN Registry5 |-> <<Registry5[i], "Gold">>],
   <<<<"a1", "Gold">>, <<"a2", "None">>, <<"a3", "Silver">>, <<"a4", "None">>,
     <<"a5", "Bronze">>>>,
   <<<<"a1", "Gold">>, <<StrayId, "Gold">>>>,
   <<<<"a1", "None">>, <<"a2", "Silver">>, <<"a1", "Silver">>>>,
   <<<<"a1", BadMedal>>, <<"a2", "Gold">>>>}

\* the picks of one player: val for the first k athletes, and possibly a pick
\* for an id outside the registry
Fill(val, k, stray) ==
  [a \in AthleteKeys |->
     IF \E i \in 1..k : Registry5[i] = a THEN val
     ELSE IF stray /\ a = StrayId THEN "Gold"
     ELSE Missing]

UserPicks ==
  {NoKey}
    \cup {DictOf(Fill(val, k, FALSE)) :
             val \in {"Gold", "Silver", "None", BadMedal}, k \in {1, 2, 5}}
    \cup {DictOf(Fill(val, 1, TRUE)) : val \in {"Gold", "Silver", "None", BadMedal}}

\* picks documents the function is called with: picks of the first and the last
\* roster player, possibly an entry under a name outside the roster, possibly a
\* roster player whose value is a string
BoardPicks ==
  {DictOf([q \in PlayerKeys |->
             CASE q = "Johan" -> j
               [] q = "Tony" -> t
               [] q = StrayPlayer -> o
               [] q = "Magnus" -> m
               [] OTHER -> NoKey]) :
     j \in UserPicks, t \in UserPicks,
     o \in {NoKey, DictOf(Fill("Gold", 5, TRUE))}, m \in {NoKey, NotADict}}

InitBoard ==
  /\ WritersOff
  /\ SessionOff
  /\ RaceOff
  /\ sb_user_picks = [a \in AthleteIds |-> Missing]
  /\ sb_results_map = [a \in AthleteIds |-> Missing]
  /\ sb_i = 0
  /\ pick = "None"
  /\ actual = "None"
  /\ pts = 0
  /\ total = 0
  /\ exact = 0
  /\ right_person = 0
  /\ b_athletes \in Registries
  /\ b_results \in BoardResults
  /\ b_picks_all \in BoardPicks
  /\ b_pc = "call"
  /\ b_results_map = NoEntries
  /\ b_p = 0
  /\ b_rows = <<>>
  /\ b_out = <<>>

scoreLocals == <<sb_user_picks, sb_results_map, sb_i, pick, actual, pts, total, exact,
                 right_person>>

\* lines 102-103
BoardStart ==
  /\ b_pc = "call"
  /\ b_results_map' = results_map(b_results)
  /\ b_rows' = <<>>
  /\ b_pc' = "loop"
  /\ UNCHANGED <<b_athletes, b_results, b_picks_all, b_p, b_out, scoreLocals>>
  /\ UNCHANGED <<varsW, varsS, varsR>>

\* lines 104-116: one iteration of `for p in PLAYERS`
BoardPlayer ==
  /\ b_pc = "loop"
  /\ b_p < Len(PLAYERS)
  /\ LET p == PLAYERS[b_p + 1]
     IN  IF GetRaises(b_picks_all, p)
           THEN b_pc' = "raised" /\ UNCHANGED <<b_p, b_rows>>
         ELSE /\ b_rows' = Append(b_rows,
                     BoardRow(p, Tally(b_athletes, user_picks_of(b_picks_all, p),
                                       b_results_map)))
              /\ b_p' = b_p + 1
              /\ b_pc' = b_pc
  /\ UNCHANGED <<b_athletes, b_results, b_picks_all, b_results_map, b_out, scoreLocals>>
  /\ UNCHANGED <<varsW, varsS, varsR>>

\* line 117
BoardReturn ==
  /\ b_pc = "loop"
  /\ b_p = Len(PLAYERS)
  /\ b_out' = sort_values(b_rows)
  /\ b_pc' = "returned"
  /\ UNCHANGED <<b_athletes, b_results, b_picks_all, b_results_map, b_p, b_rows, scoreLocals>>
  /\ UNCHANGED <<varsW, varsS, varsR>>

NextBoard == BoardStart \/ BoardPlayer \/ BoardReturn

SpecBoard == InitBoard /\ [][NextBoard]_vars

(***************************************************************************)
(* The session: every user interaction reruns the script from the top      *)
(* (Streamlit), app.py:120-267.                                            *)
(***************************************************************************)
SeqsUpTo(S, n) == UNION {[1..k -> S] : k \in 0..n}

\* cells a stored results.csv can hold
IdCells == AthleteIds \cup {StrayId}

\* a medal, a string outside the enum, or an empty cell
MedalCells == Medal \cup {BadMedal, ""}

\* what can be found at RESULTS_CSV when the session starts
ResultsFiles ==
  {NoFile, GarbageCsv, CsvFile({"athlete_id"}, <<>>), CsvFile({"medal"}, <<>>)}
    \cup {CsvFile(REQUIRED, r) : r \in SeqsUpTo(IdCells \X MedalCells, MaxRows)}

OnePick(p, a, v) ==
  DictOf([q \in PlayerKeys |->
            IF q = p THEN DictOf([b \in AthleteKeys |-> IF b = a THEN v ELSE Missing])
            ELSE NoKey])

\* what can be found at PICKS_JSON when the session starts
PicksFiles ==
  {NoPicksFile, GarbageJson, json_dumps(EmptyDict), json_dumps(JsonList),
   json_dumps(DictOf([q \in PlayerKeys |-> IF q = "Johan" THEN NotADict ELSE NoKey])),
   json_dumps(DictOf([q \in PlayerKeys |-> IF q = StrayPlayer THEN NotADict ELSE NoKey]))}
    \cup {json_dumps(OnePick(p, a, v)) :
             p \in {"Johan", StrayPlayer}, a \in {"a1", StrayId}, v \in {"Gold", BadMedal}}

\* files a user uploads in the restore tab
ResultsUploads ==
  {GarbageCsv, CsvFile({"athlete_id"}, <<>>),
   CsvFile(REQUIRED, <<<<"a2", "None">>, <<"a1", "Gold">>>>),
   CsvFile(REQUIRED, <<<<"a2", BadMedal>>, <<"a2", "Silver">>, <<StrayId, "Gold">>>>)}

PicksUploads ==
  {GarbageJson, json_dumps(JsonList), json_dumps(EmptyDict),
   json_dumps(OnePick("Tony", "a2", BadMedal)),
   json_dumps(DictOf([q \in PlayerKeys |-> IF q = "Magnus" THEN NotADict ELSE NoKey]))}

\* values the user picks in the widgets of the first tab
PlayerInputs == {"Johan", "Tony"}

MedalInputs == {"None", "Gold"}

\* app.py:20
ADMIN_PASSWORD == "admin"

PasswordInputs == {"admin", "guess"}

Clicks == {"none", "save_pick", "remove_pick", "save_results"}

\* the widget state that outlives a run
widgets == <<pwd, up_picks, up_results>>

\* what is recorded about the run and the session
history == <<disk0, saved_results, saved_picks, authed, pick_op, admin_saved, restore,
             earlier>>

\* what the session starts from: no store yet, stores written by earlier
\* sessions, or files damaged outside the program
StartResultsFiles ==
  {NoFile, GarbageCsv, CsvFile({"athlete_id"}, <<>>), CsvFile({"medal"}, <<>>),
   to_csv(Seed), CsvFile(REQUIRED, <<<<"a2", "Silver">>, <<"a1", "Gold">>>>)}

StartPicksFiles ==
  {NoPicksFile, GarbageJson, json_dumps(OnePick("Johan", "a1", "Gold"))}

SessionIdle ==
  /\ pc = "idle"
  /\ runs = 0
  /\ click = "none"
  /\ results = Unset
  /\ picks_all = UnsetPicks
  /\ board = FALSE
  /\ disk0 = results_csv
  /\ saved_results = Unset
  /\ saved_picks = UnsetPicks
  /\ pwd = ""
  /\ up_picks = NoPicksUpload
  /\ up_results = NoResultsUpload
  /\ authed = FALSE
  /\ pick_op = NoPickOp
  /\ admin_saved = Unset
  /\ restore = NoRestore
  /\ earlier = [picks |-> FALSE, results |-> FALSE]

Init ==
  /\ WritersOff
  /\ BoardOff
  /\ RaceOff
  /\ results_csv \in StartResultsFiles
  /\ picks_json \in StartPicksFiles
  /\ SessionIdle

\* the two loads of one run against any stored content
InitLoad ==
  /\ WritersOff
  /\ BoardOff
  /\ RaceOff
  /\ results_csv \in ResultsFiles
  /\ picks_json \in PicksFiles
  /\ SessionIdle

\* a user interaction: one button is clicked, or one widget gets a new value;
\* the script starts over with fresh module-level names, the other widgets
\* keep their state.  A file offered by the download buttons of the last run
\* can be what is uploaded.
Rerun ==
  /\ pc \in {"idle", "done", "stopped", "raised_read_csv", "raised_get",
             "raised_board", "raised_widget"}
  /\ runs < MaxRuns
  /\ runs' = runs + 1
  /\ \/ click' \in Clicks \ {"none"} /\ UNCHANGED widgets
     \/ click' = "none" /\ pwd' \in PasswordInputs /\ UNCHANGED <<up_picks, up_results>>
     \/ /\ click' = "none"
        /\ up_picks' \in {NoPicksUpload} \cup PicksUploads
                          \cup {restore.exp_picks : x \in {r \in {restore} : r.reached}}
        /\ UNCHANGED <<pwd, up_results>>
     \/ /\ click' = "none"
        /\ up_results' \in {NoResultsUpload} \cup ResultsUploads
                            \cup {restore.exp_results : x \in {r \in {restore} : r.reached}}
        /\ UNCHANGED <<pwd, up_picks>>
  /\ results' = Unset
  /\ picks_all' = UnsetPicks
  /\ board' = FALSE
  /\ disk0' = results_csv
  /\ pick_op' = NoPickOp
  /\ admin_saved' = Unset
  /\ restore' = NoRestore
  /\ earlier' = [picks |-> earlier.picks \/ restore.msg_picks = "success",
                 results |-> earlier.results \/ restore.msg_results = "success"]
  /\ pc' = "load_results"
  /\ UNCHANGED <<results_csv, picks_json, saved_results, saved_picks, authed>>
  /\ UNCHANGED <<varsW, varsB, varsR>>

\* line 122: results = load_results(athletes)
LoadResults ==
  /\ pc = "load_results"
  /\ LET r == load_results(results_csv)
     IN  /\ results_csv' = r.file
         /\ results' = IF r.out = "ok" THEN Frame(r.rows) ELSE results
         /\ pc' = CASE r.out = "ok" -> "load_picks"
                    [] r.out = "stop" -> "stopped"
                    [] r.out = "raise" -> "raised_read_csv"
  /\ UNCHANGED <<picks_json, runs, click, picks_all, board, widgets, history>>
  /\ UNCHANGED <<varsW, varsB, varsR>>

\* line 123: picks_all = load_picks()
LoadPicks ==
  /\ pc = "load_picks"
  /\ picks_all' = Loaded(load_picks(picks_json))
  /\ pc' = "pick_tab"
  /\ UNCHANGED <<results_csv, picks_json, runs, click, results, board, widgets, history>>
  /\ UNCHANGED <<varsW, varsB, varsR>>

\* a plausible slip: the player's other picks are dropped on an update
UpsertFresh(v, player, athlete_id, medal) ==
  DictOf([v.m EXCEPT ![player] = DictOf([NoEntries EXCEPT ![athlete_id] = medal])])

\* lines 155-156: picks_all.setdefault(player, {}); picks_all[player][athlete_id] = medal
Upsert(v, player, athlete_id, medal) ==
  LET cur == IF v.m[player].t = "missing" THEN NoEntries ELSE v.m[player].m
  IN  DictOf([v.m EXCEPT ![player] = DictOf([cur EXCEPT ![athlete_id] = medal])])

\* line 162: del picks_all[player][athlete_id]
Delete(v, player, athlete_id) ==
  DictOf([v.m EXCEPT ![player] = DictOf([v.m[player].m EXCEPT ![athlete_id] = Missing])])

PickOp(did, player, athlete_id, medal, before) ==
  [did |-> did, player |-> player, athlete_id |-> athlete_id, medal |-> medal,
   before |-> before]

\* lines 130-178, the tab "Lagg tips"
PickTab ==
  /\ pc = "pick_tab"
  /\ \E player \in PlayerInputs, athlete_id \in AthleteIds, medal \in MedalInputs :
       LET v == picks_all.val
       IN  IF v.t # "dict" \/ v.m[player].t = "str"
             THEN \* line 149: .get on a value that is not a dict, AttributeError
                  /\ pc' = "raised_get"
                  /\ UNCHANGED <<picks_all, picks_json, saved_picks, pick_op>>
           ELSE /\ pc' = "scoreboard_tab"
                /\ IF click = "save_pick"
                     THEN LET new == Upsert(v, player, athlete_id, medal)
                          IN  /\ picks_all' = Loaded(new)
                              /\ picks_json' = save_picks(new)
                              /\ saved_picks' = Loaded(new)
                              /\ pick_op' = PickOp("upsert", player, athlete_id, medal, v)
                   ELSE IF /\ click = "remove_pick"
                           /\ v.m[player].t = "dict"
                           /\ v.m[player].m[athlete_id] # Missing
                     THEN LET new == Delete(v, player, athlete_id)
                          IN  /\ picks_all' = Loaded(new)
                              /\ picks_json' = save_picks(new)
                              /\ saved_picks' = Loaded(new)
                              /\ pick_op' = PickOp("remove", player, athlete_id, "", v)
                   ELSE IF click = "remove_pick"
                     THEN /\ pick_op' = PickOp("noop", player, athlete_id, "", v)
                          /\ UNCHANGED <<picks_all, picks_json, saved_picks>>
                   ELSE UNCHANGED <<picks_all, picks_json, saved_picks, pick_op>>
  /\ UNCHANGED <<results_csv, runs, click, results, board, widgets, disk0, saved_results,
                 authed, admin_saved, restore, earlier>>
  /\ UNCHANGED <<varsW, varsB, varsR>>

\* lines 104-108: picks_all.get(p, {}) then user_picks.get(...) for every roster
\* player; a value that is not a dict raises AttributeError
BoardRaises(v) == build_scoreboard(ATHLETES, results.rows, v).state = "raised"

\* lines 180-187, the tab "Scoreboard"
ScoreboardTab ==
  /\ pc = "scoreboard_tab"
  /\ IF BoardRaises(picks_all.val)
       THEN pc' = "raised_board" /\ board' = board
       ELSE pc' = "admin_tab" /\ board' = TRUE
  /\ UNCHANGED <<results_csv, picks_json, runs, click, results, picks_all, widgets, history>>
  /\ UNCHANGED <<varsW, varsB, varsR>>

\* the registry ordered by (sport, name), as sort_values orders the admin rows
SportNameOrder == <<"a2", "a1">>

\* lines 203-204: results joined with the registry and sorted by sport, name
RECURSIVE SortBySportName(_, _)
SortBySportName(ids, rows) ==
  IF ids = <<>> THEN <<>>
  ELSE RowsFor(Head(ids), rows) \o SortBySportName(Tail(ids), rows)

\* two rows of the frame carry the same athlete_id
HasDuplicateIds(rows) ==
  \E i, j \in DOMAIN rows : i # j /\ rows[i][1] = rows[j][1]

\* lines 192-196: the shared-secret comparison
PasswordOk(p) == ADMIN_PASSWORD = "" \/ p = ADMIN_PASSWORD

\* lines 189-224, the tab "Admin (resultat)"
AdminTab ==
  /\ pc = "admin_tab"
  /\ LET ok  == PasswordOk(pwd)
         res == SortBySportName(SportNameOrder, results.rows)
     IN  /\ authed' = (authed \/ ok)
         /\ IF ~ok
              THEN pc' = "restore_tab" /\ UNCHANGED <<results_csv, saved_results, admin_saved>>
            ELSE IF HasDuplicateIds(res)
              THEN \* line 213: two selectboxes with the key admin_<id>, Streamlit raises
                   pc' = "raised_widget" /\ UNCHANGED <<results_csv, saved_results, admin_saved>>
            ELSE IF click = "save_results"
              THEN \E new_medal \in [AthleteIds -> Medal] :
                     LET updated == [i \in DOMAIN res |-> <<res[i][1], new_medal[res[i][1]]>>]
                     IN  /\ results_csv' = save_results(updated)
                         /\ saved_results' = Frame(updated)
                         /\ admin_saved' = Frame(updated)
                         /\ pc' = "restore_tab"
            ELSE pc' = "restore_tab" /\ UNCHANGED <<results_csv, saved_results, admin_saved>>
  /\ UNCHANGED <<picks_json, runs, click, results, picks_all, board, widgets, disk0,
                 saved_picks, pick_op, restore, earlier>>
  /\ UNCHANGED <<varsW, varsB, varsR>>

\* line 230: the data of the picks download button
ExportPicks(file) == IF file.kind = "absent" THEN json_dumps(EmptyDict) ELSE file

\* line 237: the data of the results download button
ExportResults(file) == IF file.kind = "absent" THEN CsvFile(REQUIRED, <<>>) ELSE file

\* a plausible slip: the restored document is stored empty
RestorePicksEmpty(up, file) ==
  IF up.kind # "json" THEN file ELSE save_picks(EmptyDict)

\* lines 245-252: restore picks.json from an upload
RestorePicks(up, file) ==
  IF up.kind # "json" THEN file ELSE save_picks(up.val)

\* lines 250-252: st.success when json.loads and save_picks went through,
\* st.error from the except branch
PicksMessage(up) ==
  CASE up.kind = "none" -> "none"
    [] up.kind = "json" -> "success"
    [] up.kind = "garbage" -> "error"

\* lines 257-263: the frame that the results upload is turned into
RestoredFrame(up) == CoerceMedals(AsStrFrame(read_csv(up)))

\* the results upload reaches save_results (line 264)
ResultsUploadOk(up) == up.kind = "csv" /\ REQUIRED \subseteq up.cols

\* lines 259, 265, 267: st.error for missing columns and from the except branch
ResultsMessage(up) ==
  CASE up.kind = "none" -> "none"
    [] up.kind = "garbage" -> "error"
    [] up.kind = "csv" /\ ResultsUploadOk(up) -> "success"
    [] up.kind = "csv" /\ ~ResultsUploadOk(up) -> "error"

\* lines 226-267, the tab "Backup / Restore"
RestoreTab ==
  /\ pc = "restore_tab"
  /\ picks_json' = RestorePicks(up_picks, picks_json)
  /\ saved_picks' = IF up_picks.kind # "json" THEN saved_picks ELSE Loaded(up_picks.val)
  /\ IF ResultsUploadOk(up_results)
       THEN /\ results_csv' = save_results(RestoredFrame(up_results))
            /\ saved_results' = Frame(RestoredFrame(up_results))
       ELSE UNCHANGED <<results_csv, saved_results>>
  /\ restore' = [reached |-> TRUE,
                 pre_picks |-> picks_json, pre_results |-> results_csv,
                 exp_picks |-> ExportPicks(picks_json),
                 exp_results |-> ExportResults(results_csv),
                 msg_picks |-> PicksMessage(up_picks),
                 msg_results |-> ResultsMessage(up_results)]
  /\ pc' = "done"
  /\ UNCHANGED <<runs, click, results, picks_all, board, widgets, disk0, authed,
                 pick_op, admin_saved, earlier>>
  /\ UNCHANGED <<varsW, varsB, varsR>>

Next ==
  \/ Rerun
  \/ LoadResults
  \/ LoadPicks
  \/ PickTab
  \/ ScoreboardTab
  \/ AdminTab
  \/ RestoreTab

Spec == Init /\ [][Next]_vars

\* the start of a run only: both loads, whatever the stores hold
NextLoad ==
  \/ Rerun
  \/ LoadResults
  \/ LoadPicks

SpecLoad == InitLoad /\ [][NextLoad]_vars

(***************************************************************************)
(* Two sessions of the app on the same state directory: each runs the      *)
(* script in a thread of its own, load_results (app.py:53-71) and the       *)
(* admin save (app.py:221-224) of the two interleave at the file accesses.  *)
(***************************************************************************)
sessionRest == <<picks_json, pc, runs, click, results, picks_all, board, widgets, history>>

InitRace ==
  /\ WritersOff
  /\ BoardOff
  /\ results_csv \in {NoFile, to_csv(Seed)}
  /\ picks_json = NoPicksFile
  /\ pc = "off"
  /\ runs = 0
  /\ click = "none"
  /\ results = Unset
  /\ picks_all = UnsetPicks
  /\ board = FALSE
  /\ disk0 = NoFile
  /\ saved_results = Unset
  /\ saved_picks = UnsetPicks
  /\ pwd = ""
  /\ up_picks = NoPicksUpload
  /\ up_results = NoResultsUpload
  /\ authed = FALSE
  /\ pick_op = NoPickOp
  /\ admin_saved = Unset
  /\ restore = NoRestore
  /\ earlier = [picks |-> FALSE, results |-> FALSE]
  /\ r_pc = [s \in Sessions |-> "idle"]
  /\ r_runs = [s \in Sessions |-> 0]
  /\ r_click = [s \in Sessions |-> "none"]
  /\ r_pwd = [s \in Sessions |-> ""]
  /\ r_exists = [s \in Sessions |-> FALSE]
  /\ r_results = [s \in Sessions |-> Unset]
  /\ r_saved = Unset

\* a user interaction in session s: "Spara resultat" is clicked or the
\* password field gets a new text; the script of s starts over
RaceRerun(s) ==
  /\ r_pc[s] \in {"idle", "done"}
  /\ r_runs[s] < MaxRaceRuns
  /\ r_runs' = [r_runs EXCEPT ![s] = @ + 1]
  /\ \/ r_click' = [r_click EXCEPT ![s] = "save_results"] /\ r_pwd' = r_pwd
     \/ /\ r_click' = [r_click EXCEPT ![s] = "none"]
        /\ \E p \in PasswordInputs : r_pwd' = [r_pwd EXCEPT ![s] = p]
  /\ r_results' = [r_results EXCEPT ![s] = Unset]
  /\ r_pc' = [r_pc EXCEPT ![s] = "exists"]
  /\ UNCHANGED <<r_exists, r_saved, results_csv, sessionRest>>
  /\ UNCHANGED <<varsW, varsB>>

\* line 54: if not RESULTS_CSV.exists()
CheckExists(s) ==
  /\ r_pc[s] = "exists"
  /\ r_exists' = [r_exists EXCEPT ![s] = (results_csv.kind # "absent")]
  /\ r_pc' = [r_pc EXCEPT ![s] = IF results_csv.kind # "absent" THEN "read" ELSE "seed"]
  /\ UNCHANGED <<r_runs, r_click, r_pwd, r_results, r_saved, results_csv, sessionRest>>
  /\ UNCHANGED <<varsW, varsB>>

\* lines 55-57: seed = ...; save_results(seed)
WriteSeed(s) ==
  /\ r_pc[s] = "seed"
  /\ results_csv' = save_results(Seed)
  /\ r_pc' = [r_pc EXCEPT ![s] = "read"]
  /\ UNCHANGED <<r_runs, r_click, r_pwd, r_exists, r_results, r_saved, sessionRest>>
  /\ UNCHANGED <<varsW, varsB>>

\* lines 59-71: read_csv of the file that is there by now, up to the return
ReadResults(s) ==
  /\ r_pc[s] = "read"
  /\ r_results' = [r_results EXCEPT ![s] = Frame(load_results(results_csv).rows)]
  /\ r_pc' = [r_pc EXCEPT ![s] = "admin"]
  /\ UNCHANGED <<r_runs, r_click, r_pwd, r_exists, r_saved, results_csv, sessionRest>>
  /\ UNCHANGED <<varsW, varsB>>

\* lines 189-224: the admin tab of session s, to the end of the run
AdminSave(s) ==
  /\ r_pc[s] = "admin"
  /\ IF PasswordOk(r_pwd[s]) /\ r_click[s] = "save_results"
       THEN \E new_medal \in [AthleteIds -> Medal] :
              LET res == SortBySportName(SportNameOrder, r_results[s].rows)
                  updated == [i \in DOMAIN res |-> <<res[i][1], new_medal[res[i][1]]>>]
              IN  /\ results_csv' = save_results(updated)
                  /\ r_saved' = Frame(updated)
       ELSE UNCHANGED <<results_csv, r_saved>>
  /\ r_pc' = [r_pc EXCEPT ![s] = "done"]
  /\ UNCHANGED <<r_runs, r_click, r_pwd, r_exists, r_results, sessionRest>>
  /\ UNCHANGED <<varsW, varsB>>

NextRace ==
  \/ \E s \in Sessions : RaceRerun(s)
  \/ \E s \in Sessions : CheckExists(s)
  \/ \E s \in Sessions : WriteSeed(s)
  \/ \E s \in Sessions : ReadResults(s)
  \/ \E s \in Sessions : AdminSave(s)

SpecRace == InitRace /\ [][NextRace]_vars

(***************************************************************************)
(* Claims about atomic_write_text.                                         *)
(***************************************************************************)
\* what a reader may legitimately find at the target: nothing yet, a prior
\* version, or a text some caller handed over, in full
Complete(f) == (~f.exists) \/ f.data \in PriorTexts \cup Texts

\* C1: with a single writer a reader of the target sees, at every step, the
\* complete prior content or the complete new content; until the rename, and
\* after a crash before it, the target is the prior version; and what a rename
\* promotes is exactly the text of the call that renames, whatever an earlier
\* crashed call left in the temp file.
C1_SingleWriterAtomic ==
  /\ Complete(target)
  /\ target \in {wprior[1], File(wtext[1])}
  /\ wpc[1] \in {"open", "write", "replace", "crashed"} => target = wprior[1]
  /\ wpc[1] = "done" => target = File(wtext[1])

\* a later call is under way on top of the half-written temp file that the
\* crashed first call left behind, and the target still is the prior version
C1_Witness ==
  /\ wcount[1] = 2
  /\ wpc[1] = "open"
  /\ tmp.exists
  /\ tmp.data # <<>>
  /\ tmp.data \notin Texts
  /\ target.exists
  /\ target = wprior[1]

\* C2: with two writers the target is always the complete prior version or
\* the complete text of one writer, never torn, truncated or a mixture.
C2_TargetNeverTorn == Complete(target)

(***************************************************************************)
(* Claims about score_pick.                                                *)
(***************************************************************************)
\* the scoring table of the specification, case by case
ReferenceScore(p, a) ==
  CASE a = "None" -> 0
    [] a # "None" /\ p = a -> 5
    [] a # "None" /\ p # "None" /\ p # a -> 2
    [] a # "None" /\ p = "None" -> 0

\* C3: on Medal x Medal score_pick is defined and equals the reference table:
\* 0 when the outcome is None, 5 on an exact non-None match, 2 on two
\* different non-None medals, 0 for no pick against a non-None outcome.
C3_ScoreIsReference ==
  (sb_i > 0 /\ pick \in Medal /\ actual \in Medal)
    => /\ pts \in {0, 2, 5}
       /\ pts = ReferenceScore(pick, actual)

\* the pick is None and so is the outcome: the first test decides, the score is 0
C3_Witness ==
  /\ sb_i > 0
  /\ pick = "None"
  /\ actual = "None"
  /\ pts = 0

(***************************************************************************)
(* Claims about the stores.                                                *)
(***************************************************************************)
\* the rows of a frame that belong to athlete a
Entries(rows, a) == {i \in DOMAIN rows : rows[i][1] = a}

\* a Result: exactly one row per registry athlete and no other row
OnePerAthlete(rows) ==
  /\ \A i \in DOMAIN rows : rows[i][1] \in AthleteIds
  /\ \A a \in AthleteIds : Cardinality(Entries(rows, a)) = 1

\* the medal a Result gives athlete a
MedalOf(rows, a) == rows[CHOOSE i \in DOMAIN rows : rows[i][1] = a][2]

\* the stored picks are a mapping player -> (athlete id -> medal string)
IsMapping(v) == v.t = "dict" /\ \A p \in PlayerKeys : v.m[p].t \in {"missing", "dict"}

\* every medal of the picks is in the enum
PickMedalsInEnum(v) ==
  \A p \in PlayerKeys : \A a \in AthleteKeys : v.m[p].m[a] \in Medal \cup {Missing}

\* C4: after every successful load_results the frame returned has exactly one
\* entry per registry athlete id, whatever rows the stored table holds.
C4_OneEntryPerAthlete ==
  (pc = "load_picks" /\ results.set) => OnePerAthlete(results.rows)

\* C5: after load_results and after load_picks every medal value of the
\* structure returned is a member of the enum.
C5_MedalsInEnumAfterLoad ==
  /\ (pc = "load_picks" /\ results.set) =>
        \A i \in DOMAIN results.rows : results.rows[i][2] \in Medal
  /\ (pc = "pick_tab" /\ picks_all.set) => PickMedalsInEnum(picks_all.val)

\* C6: a load that follows save(X) returns X, order aside: for the results
\* store when X has one valid-medal entry per registry athlete, for the picks
\* store when X is a mapping player -> (athlete id -> Medal).
C6_SaveThenLoad ==
  /\ ( /\ pc \in {"load_picks", "pick_tab"}
       /\ saved_results.set
       /\ OnePerAthlete(saved_results.rows)
       /\ \A i \in DOMAIN saved_results.rows : saved_results.rows[i][2] \in Medal )
     => /\ results.set
        /\ OnePerAthlete(results.rows)
        /\ \A a \in AthleteIds :
              MedalOf(results.rows, a) = MedalOf(saved_results.rows, a)
  /\ ( /\ pc = "pick_tab"
       /\ saved_picks.set
       /\ IsMapping(saved_picks.val)
       /\ PickMedalsInEnum(saved_picks.val) )
     => picks_all = saved_picks

\* both stores were saved in the run before, the results in another order than
\* the registry's and with a medal, the picks by the save button with a pick of
\* Tony's, and both loads of this run have returned
C6_Witness ==
  /\ pc = "pick_tab"
  /\ saved_results.set
  /\ saved_results.rows = <<<<"a2", "None">>, <<"a1", "Gold">>>>
  /\ results.rows = <<<<"a1", "Gold">>, <<"a2", "None">>>>
  /\ saved_picks.set
  /\ saved_picks.val.m["Tony"].t = "dict"
  /\ picks_json.kind = "json"
  /\ picks_all = saved_picks

\* C7: a load that finds no results.csv returns one row per registry athlete,
\* all None, and leaves a results.csv holding exactly that seed.
C7_EmptyStoreSeeded ==
  (pc = "load_picks" /\ disk0.kind = "absent")
    => /\ results.set
       /\ Len(results.rows) = Len(ATHLETES)
       /\ \A i \in DOMAIN ATHLETES : results.rows[i] = <<ATHLETES[i], "None">>
       /\ results_csv.kind = "csv"
       /\ results_csv.cols = {"athlete_id", "medal"}
       /\ results_csv.rows = [i \in DOMAIN ATHLETES |-> <<ATHLETES[i], "None">>]

\* the load of a run that started without results.csv has returned
C7_Witness ==
  /\ pc = "load_picks"
  /\ disk0.kind = "absent"
  /\ results_csv.kind = "csv"
  /\ results.set

\* C8: an unknown medal string in the stored table turns only that athlete's
\* entry into None; every athlete stored once with a valid medal is loaded
\* with that medal; and the load does not fail over it.
C8_OnlyBadEntryCoerced ==
  /\ (pc = "load_picks" /\ results.set /\ disk0.kind = "csv") =>
        \A a \in AthleteIds :
          Cardinality(Entries(disk0.rows, a)) = 1 =>
            /\ Cardinality(Entries(results.rows, a)) = 1
            /\ MedalOf(results.rows, a) =
                  IF MedalOf(disk0.rows, a) \in Medal THEN MedalOf(disk0.rows, a)
                  ELSE "None"
  /\ (runs > 0 /\ disk0.kind = "csv" /\ REQUIRED \subseteq disk0.cols)
        => pc \notin {"stopped", "raised_read_csv"}

\* one athlete stored with an unknown medal, the other with Gold
C8_Witness ==
  /\ pc = "load_picks"
  /\ disk0 = CsvFile(REQUIRED, <<<<"a1", BadMedal>>, <<"a2", "Gold">>>>)
  /\ results = Frame(<<<<"a1", "None">>, <<"a2", "Gold">>>>)

\* the picks file is missing, unparseable, or not a mapping of mappings
BadPicksFile(f) == f.kind \in {"absent", "garbage"} \/ ~IsMapping(f.val)

C10_MalformedResultsFailLoad ==
  /\ (runs > 0 /\ pc # "load_results" /\ disk0.kind = "csv" /\ ~(REQUIRED \subseteq disk0.cols))
        => /\ pc = "stopped"
           /\ ~results.set
           /\ ~picks_all.set
           /\ results_csv = disk0
           /\ ~board
  /\ board => (results.set /\ picks_all.set)

\* the run was stopped over a results.csv that has no athlete_id column
C10_Witness ==
  /\ pc = "stopped"
  /\ disk0 = CsvFile({"medal"}, <<>>)
  /\ results_csv = disk0
  /\ ~board

(***************************************************************************)
(* Backup / Restore                                                        *)
(***************************************************************************)
\* the bytes uploaded for picks.json are no player -> (athlete id -> medal)
\* mapping: they do not parse, or they parse to something else
MalformedPicksUpload(up) ==
  up.kind = "garbage" \/ (up.kind = "json" /\ ~IsMapping(up.val))

\* the bytes uploaded for results.csv do not parse, or lack a required column
MalformedResultsUpload(up) ==
  up.kind = "garbage" \/ (up.kind = "csv" /\ ~(REQUIRED \subseteq up.cols))

\* C11: a malformed upload for either store is reported as a failure and the
\* file it was meant for is, at the end of the restore tab, what it was at its
\* beginning; a store that the restore tab has changed got a well-formed upload.
C11_MalformedImportRejected ==
  (pc = "done" /\ restore.reached)
    => /\ MalformedPicksUpload(up_picks)
            => restore.msg_picks = "error" /\ picks_json = restore.pre_picks
       /\ MalformedResultsUpload(up_results)
            => restore.msg_results = "error" /\ results_csv = restore.pre_results
       /\ picks_json # restore.pre_picks => ~MalformedPicksUpload(up_picks)
       /\ results_csv # restore.pre_results => ~MalformedResultsUpload(up_results)

\* C12: when the bytes uploaded for a store are the bytes the download button
\* of the same run offers for it, a load after the restore tab returns what a
\* load before it would have returned; for a store without a file the download
\* is a well-formed empty document, and importing it equals loading no file.
C12_ExportImportRoundTrip ==
  /\ (pc = "done" /\ restore.reached /\ up_picks = restore.exp_picks)
        => load_picks(picks_json) = load_picks(restore.pre_picks)
  /\ (pc = "done" /\ restore.reached /\ up_results = restore.exp_results)
        => /\ load_results(results_csv).out = load_results(restore.pre_results).out
           /\ load_results(results_csv).rows = load_results(restore.pre_results).rows
  /\ (restore.reached /\ restore.pre_picks.kind = "absent")
        => restore.exp_picks.kind = "json" /\ restore.exp_picks.val = EmptyDict
  /\ ExportResults(NoFile) = to_csv(<<>>)
  /\ load_results(save_results(RestoredFrame(ExportResults(NoFile)))).rows
        = load_results(NoFile).rows

\* the downloaded results.csv, holding a medal, was uploaded again, then the
\* download for a picks.json that does not exist yet was uploaded
C12_Witness ==
  /\ pc = "done"
  /\ restore.pre_picks.kind = "absent"
  /\ up_picks = restore.exp_picks
  /\ picks_json.kind = "json"
  /\ up_results = restore.exp_results
  /\ \E i \in DOMAIN results_csv.rows : results_csv.rows[i][2] # "None"

(***************************************************************************)
(* Claims about build_scoreboard.                                          *)
(***************************************************************************)
\* the pick of player p for athlete a, absent picks defaulting to None
PickOf(v, p, a) == IF v.m[p].t = "dict" THEN Get(v.m[p].m, a, "None") ELSE "None"

\* the outcome of athlete a, an absent outcome defaulting to None
ActualOf(rows, a) == Get(results_map(rows), a, "None")

RECURSIVE ScoreSum(_, _, _, _)
ScoreSum(ids, rows, v, p) ==
  IF ids = <<>> THEN 0
  ELSE ReferenceScore(PickOf(v, p, Head(ids)), ActualOf(rows, Head(ids)))
         + ScoreSum(Tail(ids), rows, v, p)

\* the places of the registry where player p has the outcome exactly
ExactAt(ids, rows, v, p) ==
  {i \in DOMAIN ids : /\ ActualOf(rows, ids[i]) # "None"
                      /\ PickOf(v, p, ids[i]) = ActualOf(rows, ids[i])}

\* the places of the registry where player p picked another medal than the outcome
PartialAt(ids, rows, v, p) ==
  {i \in DOMAIN ids : /\ ActualOf(rows, ids[i]) # "None"
                      /\ PickOf(v, p, ids[i]) # "None"
                      /\ PickOf(v, p, ids[i]) # ActualOf(rows, ids[i])}

\* C13: in the frame build_scoreboard returns, the row of every player has as
\* points the sum over the registry of the reference score of (pick, outcome),
\* absent ones taken as None, as exact count the number of athletes with a
\* non-None outcome equal to the pick, and as partial count the number with a
\* non-None outcome and another, non-None pick; a player without picks has 0, 0, 0.
C13_RowsAreTheTallies ==
  b_pc = "returned" =>
    \A i \in DOMAIN b_out :
      LET r == b_out[i]
          p == r.Tippare
      IN  /\ r.Poang = ScoreSum(b_athletes, b_results, b_picks_all, p)
          /\ r.Exakta = Cardinality(ExactAt(b_athletes, b_results, b_picks_all, p))
          /\ r.RattMedaljor = Cardinality(PartialAt(b_athletes, b_results, b_picks_all, p))
          /\ b_picks_all.m[p].t = "missing"
                => r.Poang = 0 /\ r.Exakta = 0 /\ r.RattMedaljor = 0

\* registry {a1}, outcome a1: Gold, Johan picked Gold and Tony Silver for a1:
\* Johan has 5 points and one exact, Tony 2 points and one partial, the others 0
C13_Witness ==
  /\ b_pc = "returned"
  /\ b_athletes = <<"a1">>
  /\ b_results = <<<<"a1", "Gold">>>>
  /\ b_out[1] = [Tippare |-> "Johan", Poang |-> 5, Exakta |-> 1, RattMedaljor |-> 0]
  /\ b_out[2] = [Tippare |-> "Tony", Poang |-> 2, Exakta |-> 0, RattMedaljor |-> 1]
  /\ \A i \in 3..Len(b_out) : b_out[i].Poang = 0 /\ b_out[i].Exakta = 0
                              /\ b_out[i].RattMedaljor = 0

\* the place of a player in the roster
RosterIndex(p) == CHOOSE i \in DOMAIN PLAYERS : PLAYERS[i] = p

\* C14: of two rows of the frame returned, the earlier one has more points, or
\* as many points and at least as many exact picks; rows equal on both stand
\* in the order of the roster, so the order is a function of the input.
C14_SortedByPointsThenExact ==
  b_pc = "returned" =>
    \A i, j \in DOMAIN b_out :
      i < j =>
        /\ \/ b_out[i].Poang > b_out[j].Poang
           \/ b_out[i].Poang = b_out[j].Poang /\ b_out[i].Exakta >= b_out[j].Exakta
        /\ (b_out[i].Poang = b_out[j].Poang /\ b_out[i].Exakta = b_out[j].Exakta)
              => RosterIndex(b_out[i].Tippare) < RosterIndex(b_out[j].Tippare)

\* Tony has 10 points from two exact picks, Johan 10 points from five partial
\* ones: Tony, the last of the roster, is ranked first, Johan second, and the
\* four players tied at 0 follow in the order of the roster
C14_Witness ==
  /\ b_pc = "returned"
  /\ b_out[1] = [Tippare |-> "Tony", Poang |-> 10, Exakta |-> 2, RattMedaljor |-> 0]
  /\ b_out[2] = [Tippare |-> "Johan", Poang |-> 10, Exakta |-> 0, RattMedaljor |-> 5]
  /\ \A i \in 3..Len(b_out) : b_out[i].Poang = 0

(***************************************************************************)
(* Claims about the buttons of the session.                                *)
(***************************************************************************)
\* the entry of (player q, athlete a) in a picks document, Missing if none
EntryOf(v, q, a) == IF v.m[q].t = "dict" THEN v.m[q].m[a] ELSE Missing

\* two picks documents agree everywhere but at (player p, athlete a)
SameBut(v, w, p, a) ==
  /\ \A q \in PlayerKeys : q # p => v.m[q] = w.m[q]
  /\ \A b \in AthleteKeys : b # a => EntryOf(v, p, b) = EntryOf(w, p, b)

\* C15: when the handler of a pick button has run, "save" has set the one
\* entry (player, athlete) to the medal chosen and "remove" has deleted that
\* one entry if there was one and has done nothing otherwise; every other
\* entry is what it was, and picks.json holds the whole in-memory document.
C15_UpsertRemoveOneEntry ==
  pc = "scoreboard_tab" =>
    LET op == pick_op
        v  == picks_all.val
    IN  /\ op.did = "upsert"
             => /\ EntryOf(v, op.player, op.athlete_id) = op.medal
                /\ SameBut(v, op.before, op.player, op.athlete_id)
                /\ picks_json = json_dumps(v)
                /\ load_picks(picks_json) = v
        /\ op.did = "remove"
             => /\ EntryOf(op.before, op.player, op.athlete_id) # Missing
                /\ EntryOf(v, op.player, op.athlete_id) = Missing
                /\ SameBut(v, op.before, op.player, op.athlete_id)
                /\ picks_json = json_dumps(v)
                /\ load_picks(picks_json) = v
        /\ op.did = "noop"
             => /\ EntryOf(op.before, op.player, op.athlete_id) = Missing
                /\ v = op.before
                /\ load_picks(picks_json) = op.before
        /\ (click = "save_pick") = (op.did = "upsert")
        /\ (click = "remove_pick") = (op.did \in {"remove", "noop"})

\* Johan, who had Gold for a1, saved a pick for a2: both entries are in the
\* document and in the file
C15_Witness ==
  /\ pc = "scoreboard_tab"
  /\ pick_op.did = "upsert"
  /\ pick_op.player = "Johan"
  /\ pick_op.athlete_id = "a2"
  /\ EntryOf(pick_op.before, "Johan", "a1") = "Gold"
  /\ EntryOf(picks_all.val, "Johan", "a1") = "Gold"
  /\ EntryOf(load_picks(picks_json), "Johan", "a2") = "Gold"

\* results.csv is there and has the required columns
Seeded(f) == f.kind = "csv" /\ REQUIRED \subseteq f.cols

\* C16: once results.csv exists, no step of a session in which the password
\* typed has never matched ADMIN_PASSWORD changes results.csv.
C16_ResultsChangeOnlyWithSecret ==
  [][(Seeded(results_csv) /\ ADMIN_PASSWORD # "" /\ ~authed')
        => results_csv' = results_csv]_vars

\* C17: when a run in which a pick button or "Spara resultat" has acted ends,
\* and an earlier run of the session has imported an upload for that store, the
\* file holds what the button saved: the document with the pick set or removed,
\* resp. the frame the admin saved.
C17_LaterMutationStays ==
  pc = "done" =>
    /\ (earlier.picks /\ pick_op.did \in {"upsert", "remove"})
          => load_picks(picks_json) = picks_all.val
    /\ (earlier.results /\ admin_saved.set)
          => results_csv = save_results(admin_saved.rows)

(***************************************************************************)
(* Claims about two sessions.                                              *)
(***************************************************************************)
\* C18: with two sessions interleaved, once a session has saved outcomes with
\* "Spara resultat", a load of results.csv returns for every athlete the medal
\* of the latest such save: the seed of a load in the other session is never
\* written over it.
C18_SeedNeverOverSaved ==
  r_saved.set =>
    \A a \in AthleteIds :
      MedalOf(load_results(results_csv).rows, a) = MedalOf(r_saved.rows, a)

(***************************************************************************)
(* Further claims about build_scoreboard.                                  *)
(***************************************************************************)
\* the places of the registry whose outcome is not None
MedalledAt(ids, rows) == {i \in DOMAIN ids : ActualOf(rows, ids[i]) # "None"}

\* C19: in every row build_scoreboard appends and in every row it returns the
\* points are 5 times the exact count plus 2 times the partial count, and the
\* two counts together are at most the number of registry athletes whose
\* outcome is not None, whatever strings the picks hold.
C19_PointsFromCounts ==
  \A rows \in {b_rows, b_out} :
    \A i \in DOMAIN rows :
      /\ rows[i].Poang = 5 * rows[i].Exakta + 2 * rows[i].RattMedaljor
      /\ rows[i].Exakta + rows[i].RattMedaljor
            <= Cardinality(MedalledAt(b_athletes, b_results))

\* three of five athletes have a medal; Johan, with Gold for all five, has one
\* exact and two partial picks (9 points), Tony, with a medal outside the enum
\* for all five, three partial ones (6 points)
C19_Witness ==
  /\ b_pc = "returned"
  /\ Cardinality(MedalledAt(b_athletes, b_results)) = 3
  /\ b_out[1] = [Tippare |-> "Johan", Poang |-> 9, Exakta |-> 1, RattMedaljor |-> 2]
  /\ b_out[2] = [Tippare |-> "Tony", Poang |-> 6, Exakta |-> 0, RattMedaljor |-> 3]
  /\ EntryOf(b_picks_all, "Tony", "a1") = BadMedal

\* the set of ids of a registry
IdsOf(ids) == {ids[i] : i \in DOMAIN ids}

\* the picks document without the names outside the roster and without the
\* athlete ids outside the registry
StripPicks(ids, v) ==
  DictOf([q \in PlayerKeys |->
            IF q \notin Players THEN NoKey
            ELSE IF v.m[q].t # "dict" THEN v.m[q]
            ELSE DictOf([a \in AthleteKeys |->
                           IF a \in IdsOf(ids) THEN v.m[q].m[a] ELSE Missing])])

\* the results rows without the athlete ids outside the registry
RECURSIVE StripRows(_, _)
StripRows(ids, rows) ==
  IF rows = <<>> THEN <<>>
  ELSE IF Head(rows)[1] \in IdsOf(ids)
         THEN <<Head(rows)>> \o StripRows(ids, Tail(rows))
       ELSE StripRows(ids, Tail(rows))

\* the frame has exactly one row for every player of the roster
OneRowPerPlayer(rows) ==
  /\ Len(rows) = Len(PLAYERS)
  /\ \A p \in Players : Cardinality({i \in DOMAIN rows : rows[i].Tippare = p}) = 1

\* the part of C20 about a call that returns
StraysChangeNothing ==
  b_pc = "returned"
    => /\ OneRowPerPlayer(b_out)
       /\ b_out = build_scoreboard(b_athletes, StripRows(b_athletes, b_results),
                                   StripPicks(b_athletes, b_picks_all)).rows

\* C20: every call of build_scoreboard returns, with exactly one row for every
\* roster player, whatever the picks document holds; and the rows are those of
\* the call without the names outside the roster and without the picks and
\* results for athlete ids outside the registry.
C20_OneRowPerRosterPlayer ==
  /\ b_pc # "raised"
  /\ StraysChangeNothing

====
